---- MODULE Spec2Model ----
(***************************************************************************)
(* A model of the drive-app server (src/srv/server.go) over its SQLite     *)
(* store (src/db/migrations, src/db/queries).                              *)
(*                                                                         *)
(* Units.  Go's float64 kilometres and hours are kept exact as integers:   *)
(* distances are metres, durations are minutes.  All points lie on one     *)
(* meridian, where the haversine formula reduces to R * |dLat|, so a       *)
(* latitude is given as its arc position in metres and the great-circle    *)
(* distance is the absolute difference.  A clock time "HH:MM" is the pair  *)
(* <<HH, MM>> that strings.Split(t, ":") yields.                           *)
(***************************************************************************)
EXTENDS Integers, Sequences, FiniteSets, TLC

VARIABLES
    users,                   \* table users: the set of ids
    visit_history,           \* table visit_history: rows in rowid order
    recommendation_history,  \* table recommendation_history: rows in rowid order
    route_history,           \* table route_history: rows in rowid order
    now,                     \* CURRENT_TIMESTAMP, in seconds
    fkEnforced,              \* PRAGMA foreign_keys of the connection
    fault,                   \* the query of dbgen that fails, or "none"
    resp,                    \* the request being answered and its response
    writes,                  \* the requests that have written to the store
    call                     \* the last direct call of a pure function

vars == <<users, visit_history, recommendation_history, route_history,
          now, fkEnforced, fault, resp, writes, call>>

----------------------------------------------------------------------------
(* Bounds of the model *)

MaxWrites == 2      \* requests that write to the store
MaxTextLen == 3     \* tokens of an LLM reply text
MaxHashLen == 4     \* ids handed to computeRouteHash directly

(* Program constants *)

DefaultMaxDistanceKm == 100
DefaultMaxTimeHours == 3
SpeedKmh == 40
MinAIResults == 3
MaxFallbackResults == 5
RecentDays == 7
DefaultHistoryLimit == 20
DefaultAvailableHours == 8
RecentRouteLimit == 20

\* datetime('now', '-7 days'), in seconds
Week == RecentDays * 24 * 60 * 60

----------------------------------------------------------------------------
(* Helpers *)

Abs(x) == IF x < 0 THEN -x ELSE x

Range(s) == {s[i] : i \in 1..Len(s)}

SeqsUpTo(S, n) == UNION {[1..k -> S] : k \in 0..n}

\* Go's int(x) of a non-negative quotient a/b: truncation.
TruncDiv(a, b) == IF a >= 0 THEN a \div b ELSE -((-a) \div b)

\* Go's a % b: the remainder has the sign of a.
GoMod(a, b) == a - b * TruncDiv(a, b)

\* math.Round(km*10)/10 of a distance given in metres: to the nearest 100 m,
\* halves away from zero (distances are never negative).
Round1(m) == ((m + 50) \div 100) * 100

----------------------------------------------------------------------------
(* The spots table.  No handler of the server writes it. *)

Lng0 == 0

\* GetAllSpots: SELECT * FROM spots ORDER BY created_at DESC.
GetAllSpots ==
    << [id |-> 7, category |-> "restaurant", lat |-> 15000,  lng |-> Lng0],
       [id |-> 6, category |-> "drive",      lat |-> 20000,  lng |-> Lng0],
       [id |-> 5, category |-> "rest",       lat |-> -5000,  lng |-> Lng0],
       [id |-> 4, category |-> "restaurant", lat |-> 40300,  lng |-> Lng0],
       [id |-> 3, category |-> "drive",      lat |-> 120000, lng |-> Lng0],
       [id |-> 2, category |-> "drive",      lat |-> 50000,  lng |-> Lng0],
       [id |-> 1, category |-> "drive",      lat |-> 10000,  lng |-> Lng0] >>

----------------------------------------------------------------------------
(* Request bodies, fields in the order of the Go structs *)

\* A body json.Decode rejects.
Malformed == [malformed |-> TRUE]

RecommendRequest(d, t, c) ==
    [Lat |-> 0, Lng |-> Lng0, MaxDistanceKm |-> d, MaxTimeHours |-> t,
     Category |-> c]

RouteRequest(dep, ret, restaurant, rest) ==
    [Lat |-> 0, Lng |-> Lng0, DepartureTime |-> dep, ReturnTime |-> ret,
     IncludeRestaurant |-> restaurant, IncludeRest |-> rest]

FeedbackRequest(s, r) == [SpotID |-> s, Rating |-> r]

AcceptRequest(s) == [SpotID |-> s]

SpotIDs == {GetAllSpots[i].id : i \in 1..Len(GetAllSpots)}

\* An id no spot has.
UnknownSpot == CHOOSE n \in 90..99 : n \notin SpotIDs

haversine(lat1, lon1, lat2, lon2) == Abs(lat2 - lat1)

----------------------------------------------------------------------------
(* Identity *)

\* The cookie's value, or the id made for a request without one.
getUserID(cookie, fresh) == IF cookie # "" THEN cookie ELSE fresh

----------------------------------------------------------------------------
(* Queries *)

\* Whether a call of the query named q returns an error.
Fails(q) == fault = q

\* Whether an INSERT of a history row for (user, spot) passes the foreign keys
\* of 003-users.sql; they hold only when the connection enforces them.
ForeignKeysOK(user, spot) ==
    fkEnforced => (user \in users /\ spot \in SpotIDs)

\* GetOrCreateUser: INSERT INTO users ... ON CONFLICT(id) DO UPDATE; the
\* table after the call, whose error the handlers drop.
GetOrCreateUser(userID) ==
    IF Fails("GetOrCreateUser") THEN users ELSE users \cup {userID}

\* The visited spots of all users, with no WHERE on the user.
GetUserVisitedSpotIDsAnyUser(userID) ==
    {visit_history[i].spot_id : i \in 1..Len(visit_history)}

\* GetUserVisitedSpotIDs: SELECT DISTINCT spot_id ... WHERE user_id = ?
GetUserVisitedSpotIDs(userID) ==
    {visit_history[i].spot_id :
        i \in {j \in 1..Len(visit_history) : visit_history[j].user_id = userID}}

\* GetRecentRecommendations: ... WHERE user_id = ? AND recommended_at >
\* datetime('now', '-7 days')
GetRecentRecommendations(userID) ==
    {recommendation_history[i].spot_id :
        i \in {j \in 1..Len(recommendation_history) :
                 /\ recommendation_history[j].user_id = userID
                 /\ recommendation_history[j].recommended_at > now - Week}}

\* The last n elements of a sequence.
Latest(s, n) == IF Len(s) <= n THEN s ELSE SubSeq(s, Len(s) - n + 1, Len(s))

\* GetRecentRouteHashes: SELECT route_hash ... WHERE user_id = ? ORDER BY
\* created_at DESC LIMIT 20, as the set the handler makes of them.
GetRecentRouteHashes(userID) ==
    LET own == SelectSeq(route_history, LAMBDA row : row.user_id = userID)
    IN {row.route_hash : row \in Range(Latest(own, RecentRouteLimit))}

\* AddVisitHistory: INSERT ... VALUES (?, ?, CURRENT_TIMESTAMP, ?, ?)
AddVisitHistory(userID, spotID, rating) ==
    Append(visit_history,
           [id |-> Len(visit_history) + 1, user_id |-> userID,
            spot_id |-> spotID, visited_at |-> now, rating |-> rating])

\* AddRecommendationHistory that records only the first spot of a result.
AddRecommendationHistoryFirstOnly(rows, userID, spotIDs) ==
    IF spotIDs = <<>> THEN rows
    ELSE Append(rows, [user_id |-> userID, spot_id |-> Head(spotIDs),
                       recommended_at |-> now, was_accepted |-> FALSE])

\* AddRecommendationHistory, once per spot of a result, in order.
RECURSIVE AddRecommendationHistory(_, _, _)
AddRecommendationHistory(rows, userID, spotIDs) ==
    IF spotIDs = <<>> THEN rows
    ELSE AddRecommendationHistory(
             Append(rows, [user_id |-> userID, spot_id |-> Head(spotIDs),
                           recommended_at |-> now, was_accepted |-> FALSE]),
             userID, Tail(spotIDs))

\* UpdateRecommendationAccepted with WHERE spot_id = ? alone.
UpdateRecommendationAcceptedAnyUser(userID, spotID) ==
    [i \in 1..Len(recommendation_history) |->
        IF recommendation_history[i].spot_id = spotID
        THEN [recommendation_history[i] EXCEPT !.was_accepted = TRUE]
        ELSE recommendation_history[i]]

\* UpdateRecommendationAccepted: UPDATE ... SET was_accepted = TRUE WHERE
\* user_id = ? AND spot_id = ?
UpdateRecommendationAccepted(userID, spotID) ==
    [i \in 1..Len(recommendation_history) |->
        IF /\ recommendation_history[i].user_id = userID
           /\ recommendation_history[i].spot_id = spotID
        THEN [recommendation_history[i] EXCEPT !.was_accepted = TRUE]
        ELSE recommendation_history[i]]

\* The rows GetUserVisitHistory selects: the user's, joined with spots.
UserVisitRows(userID) ==
    {i \in 1..Len(visit_history) :
        /\ visit_history[i].user_id = userID
        /\ visit_history[i].spot_id \in SpotIDs}

\* ORDER BY vh.visited_at DESC: every order of the rows that is descending in
\* visited_at; rows of one second come in an order SQL leaves open.
VisitOrders(userID) ==
    LET R == UserVisitRows(userID)
        n == Cardinality(R)
    IN {o \in [1..n -> R] :
          /\ \A a, b \in 1..n : a # b => o[a] # o[b]
          /\ \A a, b \in 1..n :
                a < b => visit_history[o[a]].visited_at >= visit_history[o[b]].visited_at}

\* LIMIT ?: a negative limit is no limit.
Limit(s, n) == IF n < 0 \/ n >= Len(s) THEN s ELSE SubSeq(s, 1, n)

\* GetUserVisitHistory, for one order of the ties.
GetUserVisitHistory(order, limit) ==
    Limit([k \in 1..Len(order) |-> visit_history[order[k]]], limit)

----------------------------------------------------------------------------
(* The LLM call *)

\* What the outbound call yields.  kind: "neterr" (client.Do fails, the 30 s
\* timeout included), "nonjson" (the body is no JSON), "nocontent" (content
\* is empty), "text" (content[0].text is `text`).  The text is a sequence of
\* tokens: "{" and "}" are those characters, "J" is any text without braces.
\* The span from the first "{" to the last "}" is a JSON object exactly when
\* it is "{}" or "{J}" with J the members; ids, durs and msg are then what
\* json.Unmarshal finds in it.
Tokens == {"{", "}", "J"}

Reply(kind, text, ids, durs, msg) ==
    [kind |-> kind, text |-> text, ids |-> ids, durs |-> durs, msg |-> msg]

\* The 0-based index of the first "{", or -1.
FirstOpen(text) ==
    LET I == {i \in 1..Len(text) : text[i] = "{"}
    IN IF I = {} THEN -1 ELSE (CHOOSE i \in I : \A j \in I : i <= j) - 1

\* One past the 0-based index of the last "}", or -1.
LastClose(text) ==
    LET I == {i \in 1..Len(text) : text[i] = "}"}
    IN IF I = {} THEN -1 ELSE (CHOOSE i \in I : \A j \in I : i >= j)

\* Whether json.Unmarshal accepts the span as an object.
ParsesAsObject(span) == span = <<"{", "}">> \/ span = <<"{", "J", "}">>

NoAIResult == [panic |-> FALSE, ids |-> <<>>, durs |-> <<>>, msg |-> ""]

\* The brace scan and the parse that callClaudeAPI and callClaudeAPIForRouteV2
\* share.  text[start:end] with start > end is a run-time panic.
ExtractJSON(reply) ==
    LET start == FirstOpen(reply.text)
        end == LastClose(reply.text)
    IN IF reply.kind # "text" THEN NoAIResult
       ELSE IF start = -1 \/ end = -1 THEN NoAIResult
       ELSE IF start > end THEN [NoAIResult EXCEPT !.panic = TRUE]
       ELSE LET span == SubSeq(reply.text, start + 1, end)
            IN IF ~ParsesAsObject(span) THEN NoAIResult
               ELSE IF span = <<"{", "}">> THEN NoAIResult
               ELSE [panic |-> FALSE, ids |-> reply.ids,
                     durs |-> reply.durs, msg |-> reply.msg]

callClaudeAPI(reply) ==
    LET r == ExtractJSON(reply)
    IN [panic |-> r.panic, spotIDs |-> r.ids, message |-> r.msg]

----------------------------------------------------------------------------
(* Recommendation *)

NoMatchMessage == "no spots match the conditions"
FallbackMessage == "chosen for a balance of distance and category"

\* int(dist / 40 * 60), dist in metres.
DrivingMin(dist) == TruncDiv(dist * 60, SpeedKmh * 1000)

\* The defaults HandleRecommend puts in for 0.  MaxDistanceKm is in metres,
\* MaxTimeHours in minutes.
WithDefaults(req) ==
    [req EXCEPT
        !.MaxDistanceKm = IF @ = 0 THEN DefaultMaxDistanceKm * 1000 ELSE @,
        !.MaxTimeHours = IF @ = 0 THEN DefaultMaxTimeHours * 60 ELSE @]

\* IsCandidate without the visited check.
IsCandidateKeepsVisited(spot, visitedSet, req) ==
    LET dist == haversine(req.Lat, req.Lng, spot.lat, spot.lng)
    IN /\ ~(dist > req.MaxDistanceKm)
       /\ ~(req.Category # "" /\ spot.category # req.Category)
       /\ ~(DrivingMin(dist) > req.MaxTimeHours)

\* IsCandidate without the category check.
IsCandidateAnyCategory(spot, visitedSet, req) ==
    LET dist == haversine(req.Lat, req.Lng, spot.lat, spot.lng)
    IN /\ spot.id \notin visitedSet
       /\ ~(dist > req.MaxDistanceKm)
       /\ ~(DrivingMin(dist) > req.MaxTimeHours)

\* IsCandidate without the distance check.
IsCandidateAnyDistance(spot, visitedSet, req) ==
    LET dist == haversine(req.Lat, req.Lng, spot.lat, spot.lng)
    IN /\ spot.id \notin visitedSet
       /\ ~(req.Category # "" /\ spot.category # req.Category)
       /\ ~(DrivingMin(dist) > req.MaxTimeHours)

\* The loop body's three `continue`s and the visited check: whether the spot
\* becomes a candidate.
IsCandidate(spot, visitedSet, req) ==
    LET dist == haversine(req.Lat, req.Lng, spot.lat, spot.lng)
    IN /\ spot.id \notin visitedSet
       /\ ~(dist > req.MaxDistanceKm)
       /\ ~(req.Category # "" /\ spot.category # req.Category)
       /\ ~(DrivingMin(dist) > req.MaxTimeHours)

SpotWithDistance(spot, req) ==
    LET dist == haversine(req.Lat, req.Lng, spot.lat, spot.lng)
    IN [id |-> spot.id, category |-> spot.category, dist |-> dist,
        DistanceKm |-> Round1(dist), DrivingTimeMin |-> DrivingMin(dist),
        RoundTripKm |-> Round1(dist * 2), RoundTripMin |-> DrivingMin(dist) * 2]

RECURSIVE FilterCandidates(_, _, _)
FilterCandidates(allSpots, visitedSet, req) ==
    IF allSpots = <<>> THEN <<>>
    ELSE LET spot == Head(allSpots)
             rest == FilterCandidates(Tail(allSpots), visitedSet, req)
         IN IF IsCandidate(spot, visitedSet, req)
            THEN <<SpotWithDistance(spot, req)>> \o rest
            ELSE rest

IDsOf(spots) == [i \in 1..Len(spots) |-> spots[i].id]

\* Map IDs back to spots of the whole table instead of the candidates.
RECURSIVE MapIDsFromAllSpots(_, _)
MapIDsFromAllSpots(spotIDs, candidates) ==
    IF spotIDs = <<>> THEN <<>>
    ELSE LET rest == MapIDsFromAllSpots(Tail(spotIDs), candidates)
         IN IF Head(spotIDs) \notin SpotIDs THEN rest
            ELSE <<[id |-> Head(spotIDs)]>> \o rest

\* Map IDs back to spots: ids the candidates do not hold are dropped.
RECURSIVE MapIDs(_, _)
MapIDs(spotIDs, candidates) ==
    IF spotIDs = <<>> THEN <<>>
    ELSE LET M == {i \in 1..Len(candidates) : candidates[i].id = Head(spotIDs)}
             rest == MapIDs(Tail(spotIDs), candidates)
         IN IF M = {} THEN rest
            ELSE <<candidates[CHOOSE i \in M : TRUE]>> \o rest

\* The fallback loop without the already-included check.
RECURSIVE FallbackFillRepeats(_, _, _)
FallbackFillRepeats(result, candidates, recentSet) ==
    IF candidates = <<>> THEN result
    ELSE IF Len(result) >= MaxFallbackResults THEN result
    ELSE LET c == Head(candidates)
         IN IF c.id \notin recentSet
            THEN FallbackFillRepeats(Append(result, c), Tail(candidates),
                                     recentSet)
            ELSE FallbackFillRepeats(result, Tail(candidates), recentSet)

\* The fallback loop without the recently-recommended check.
RECURSIVE FallbackFillIgnoresRecent(_, _, _)
FallbackFillIgnoresRecent(result, candidates, recentSet) ==
    IF candidates = <<>> THEN result
    ELSE IF Len(result) >= MaxFallbackResults THEN result
    ELSE LET c == Head(candidates)
             alreadyIncluded == \E i \in 1..Len(result) : result[i].id = c.id
         IN IF ~alreadyIncluded
            THEN FallbackFillIgnoresRecent(Append(result, c), Tail(candidates),
                                           recentSet)
            ELSE FallbackFillIgnoresRecent(result, Tail(candidates), recentSet)

\* The fallback loop over the candidates.
RECURSIVE FallbackFill(_, _, _)
FallbackFill(result, candidates, recentSet) ==
    IF candidates = <<>> THEN result
    ELSE IF Len(result) >= MaxFallbackResults THEN result
    ELSE LET c == Head(candidates)
             alreadyIncluded == \E i \in 1..Len(result) : result[i].id = c.id
         IN IF ~alreadyIncluded /\ c.id \notin recentSet
            THEN FallbackFill(Append(result, c), Tail(candidates), recentSet)
            ELSE FallbackFill(result, Tail(candidates), recentSet)

\* valid: the ids of the reply that the candidates hold.
getAIRecommendations(candidates, recentSet, reply) ==
    LET ai == callClaudeAPI(reply)
        result == MapIDs(ai.spotIDs, candidates)
    IN IF ai.panic
       THEN [panic |-> TRUE, result |-> <<>>, message |-> "", valid |-> 0,
             llmCalls |-> 1]
       ELSE IF Len(result) < MinAIResults
       THEN [panic |-> FALSE,
             result |-> FallbackFill(result, candidates, recentSet),
             message |-> IF ai.message = "" THEN FallbackMessage ELSE ai.message,
             valid |-> Len(result), llmCalls |-> 1]
       ELSE [panic |-> FALSE, result |-> result, message |-> ai.message,
             valid |-> Len(result), llmCalls |-> 1]

\* RecommendFrom that calls the LLM again when the first reply gave no valid
\* spot.
RecommendFromWithRetry(candidates, recentSet, reply) ==
    IF Len(candidates) = 0
    THEN [panic |-> FALSE, result |-> <<>>, message |-> NoMatchMessage,
          valid |-> 0, llmCalls |-> 0]
    ELSE LET first == getAIRecommendations(candidates, recentSet, reply)
         IN IF ~first.panic /\ first.valid = 0
            THEN [getAIRecommendations(candidates, recentSet, reply)
                    EXCEPT !.llmCalls = 2]
            ELSE first

\* RecommendFrom without the early return on an empty candidate list.
RecommendFromNoEarlyReturn(candidates, recentSet, reply) ==
    getAIRecommendations(candidates, recentSet, reply)

\* What HandleRecommend answers from the candidates: at once when there is
\* none, else what getAIRecommendations returns.
RecommendFrom(candidates, recentSet, reply) ==
    IF Len(candidates) = 0
    THEN [panic |-> FALSE, result |-> <<>>, message |-> NoMatchMessage,
          valid |-> 0, llmCalls |-> 0]
    ELSE getAIRecommendations(candidates, recentSet, reply)

----------------------------------------------------------------------------
(* Route generation *)

NoDriveMessage == "no drive spots match the conditions"
RouteFallbackMessage == "picked a recommended drive spot"

\* A clock time "HH:MM" is <<HH, MM>>; "" is <<>>; a text with no ":" is
\* one part.  strconv.Atoi of each of the two parts.
parseTimeToMinutes(t) == IF Len(t) # 2 THEN 0 ELSE t[1] * 60 + t[2]

\* fmt.Sprintf("%02d:%02d", m / 60, m % 60)
minutesToTime(m) == <<TruncDiv(m, 60), GoMod(m, 60)>>

\* availableHours taken from every return time given, later or not.
AvailableMinutesAnyReturn(req) ==
    LET depMin == parseTimeToMinutes(req.DepartureTime)
        retMin == parseTimeToMinutes(req.ReturnTime)
    IN IF req.ReturnTime # <<>>
       THEN retMin - depMin
       ELSE DefaultAvailableHours * 60

\* availableHours, in minutes.
AvailableMinutes(req) ==
    LET depMin == parseTimeToMinutes(req.DepartureTime)
        retMin == parseTimeToMinutes(req.ReturnTime)
    IN IF req.ReturnTime # <<>> /\ retMin > depMin
       THEN retMin - depMin
       ELSE DefaultAvailableHours * 60

\* dist > maxOneWayDist, where maxDistanceKm = availableHours * 40 * 0.5 and
\* maxOneWayDist = maxDistanceKm / 3; dist in metres, both sides times 360.
ExceedsOneWay(dist, availableMin) ==
    dist * 60 * 2 * 3 > availableMin * SpeedKmh * 1000

\* shuffleSpots, with the clock reading `seed` at every step.
RECURSIVE shuffleSpots(_, _, _)
shuffleSpots(spots, i, seed) ==
    IF i <= 0 THEN spots
    ELSE LET j == seed % (i + 1)
         IN shuffleSpots([spots EXCEPT ![i + 1] = spots[j + 1],
                                       ![j + 1] = spots[i + 1]],
                         i - 1, seed)

\* Bucket without the one-way cap.
RECURSIVE BucketAnyDistance(_, _, _, _)
BucketAnyDistance(allSpots, req, availableMin, category) ==
    IF allSpots = <<>> THEN <<>>
    ELSE LET spot == Head(allSpots)
             rest == BucketAnyDistance(Tail(allSpots), req, availableMin, category)
         IN IF spot.category = category THEN <<spot>> \o rest ELSE rest

\* The spots of one category within the one-way cap, in the order given.
RECURSIVE Bucket(_, _, _, _)
Bucket(allSpots, req, availableMin, category) ==
    IF allSpots = <<>> THEN <<>>
    ELSE LET spot == Head(allSpots)
             rest == Bucket(Tail(allSpots), req, availableMin, category)
             dist == haversine(req.Lat, req.Lng, spot.lat, spot.lng)
         IN IF ~ExceedsOneWay(dist, availableMin) /\ spot.category = category
            THEN <<spot>> \o rest
            ELSE rest

\* One pass of the exchange sort: only position 1 is settled.
RECURSIVE ExchangeSortOnePass(_, _, _)
ExchangeSortOnePass(sorted, i, j) ==
    IF i >= Len(sorted) \/ j > Len(sorted) THEN sorted
    ELSE IF sorted[i] > sorted[j]
    THEN ExchangeSortOnePass([sorted EXCEPT ![i] = sorted[j], ![j] = sorted[i]],
                             i, j + 1)
    ELSE ExchangeSortOnePass(sorted, i, j + 1)

\* The exchange sort of computeRouteHash: position i against every j > i.
RECURSIVE ExchangeSort(_, _, _)
ExchangeSort(sorted, i, j) ==
    IF i >= Len(sorted) THEN sorted
    ELSE IF j > Len(sorted) THEN ExchangeSort(sorted, i + 1, i + 2)
    ELSE IF sorted[i] > sorted[j]
    THEN ExchangeSort([sorted EXCEPT ![i] = sorted[j], ![j] = sorted[i]], i, j + 1)
    ELSE ExchangeSort(sorted, i, j + 1)

\* fmt.Sprintf("%v", ids): "[1 2 3]"
RECURSIVE JoinIDs(_)
JoinIDs(ids) ==
    IF ids = <<>> THEN ""
    ELSE IF Len(ids) = 1 THEN ToString(ids[1])
    ELSE ToString(ids[1]) \o " " \o JoinIDs(Tail(ids))

SprintfV(ids) == "[" \o JoinIDs(ids) \o "]"

\* computeRouteHash without the sort.
computeRouteHashUnsorted(ids) == [hash |-> SprintfV(ids), ids |-> ids]

\* The hash, and the caller's slice as the call leaves it.
computeRouteHash(ids) ==
    [hash |-> SprintfV(ExchangeSort(ids, 1, 2)), ids |-> ids]

callClaudeAPIForRouteV2(reply) ==
    LET r == ExtractJSON(reply)
    IN [panic |-> r.panic, routeIDs |-> r.ids, stayDurations |-> r.durs,
        message |-> r.msg]

RouteStop(id, category, lat, lng, dist, arrival, stay) ==
    [ID |-> id, Category |-> category, Lat |-> lat, Lng |-> lng,
     DistanceFromPrev |-> dist, ArrivalTime |-> arrival, StayDuration |-> stay]

\* The synthetic stop that opens a route.
StartStop(startLat, startLng, t) ==
    RouteStop(0, "start", startLat, startLng, 0, minutesToTime(t), 0)

\* The closing stop placed where the walk ended instead of at the start.
EndStopWhereWalkEnded(startLat, startLng, dist, t) ==
    RouteStop(0, "end", startLat + dist, startLng, Round1(dist),
              minutesToTime(t), 0)

\* The synthetic stop that closes a route.
EndStop(startLat, startLng, dist, t) ==
    RouteStop(0, "end", startLat, startLng, Round1(dist), minutesToTime(t), 0)

\* The stay by category alone, whatever the reply lists.
StayMinDefaultOnly(i, stayDurations, category) ==
    CASE category = "restaurant" -> 50
      [] category = "rest" -> 20
      [] category = "drive" -> 40
      [] OTHER -> 30

\* The stay of the stop at 0-based position i of route_ids.
StayMin(i, stayDurations, category) ==
    IF i < Len(stayDurations) THEN stayDurations[i + 1]
    ELSE CASE category = "restaurant" -> 50
           [] category = "rest" -> 20
           [] category = "drive" -> 40
           [] OTHER -> 30

\* The loop over route_ids with a clock that the stays do not advance.
RECURSIVE WalkWithoutStay(_, _, _, _, _)
WalkWithoutStay(w, i, routeIDs, stayDurations, spotMap) ==
    IF i >= Len(routeIDs) THEN w
    ELSE LET M == {k \in 1..Len(spotMap) : spotMap[k].id = routeIDs[i + 1]}
         IN IF M = {} THEN WalkWithoutStay(w, i + 1, routeIDs, stayDurations, spotMap)
            ELSE LET spot == spotMap[CHOOSE k \in M : TRUE]
                     dist == haversine(w.prevLat, Lng0, spot.lat, spot.lng)
                     stayMin == StayMin(i, stayDurations, spot.category)
                     arrive == w.currentTime + DrivingMin(dist)
                 IN WalkWithoutStay(
                         [stops |-> Append(w.stops,
                                     RouteStop(spot.id, spot.category, spot.lat,
                                               spot.lng, Round1(dist),
                                               minutesToTime(arrive), stayMin)),
                          totalDist |-> w.totalDist + dist,
                          currentTime |-> arrive,
                          prevLat |-> spot.lat],
                         i + 1, routeIDs, stayDurations, spotMap)

\* The loop over route_ids; w holds stops, totalDist, currentTime, prevLat.
RECURSIVE Walk(_, _, _, _, _)
Walk(w, i, routeIDs, stayDurations, spotMap) ==
    IF i >= Len(routeIDs) THEN w
    ELSE LET M == {k \in 1..Len(spotMap) : spotMap[k].id = routeIDs[i + 1]}
         IN IF M = {} THEN Walk(w, i + 1, routeIDs, stayDurations, spotMap)
            ELSE LET spot == spotMap[CHOOSE k \in M : TRUE]
                     dist == haversine(w.prevLat, Lng0, spot.lat, spot.lng)
                     travelMin == DrivingMin(dist)
                     stayMin == StayMin(i, stayDurations, spot.category)
                     arrive == w.currentTime + travelMin
                 IN Walk([stops |-> Append(w.stops,
                                     RouteStop(spot.id, spot.category, spot.lat,
                                               spot.lng, Round1(dist),
                                               minutesToTime(arrive), stayMin)),
                          totalDist |-> w.totalDist + dist,
                          currentTime |-> arrive + stayMin,
                          prevLat |-> spot.lat],
                         i + 1, routeIDs, stayDurations, spotMap)

\* buildRouteWithAI without the fallback for a reply that yields no stop.
buildRouteWithAINoFallback(startLat, startLng, driveSpots, restaurants, restSpots, depMinutes, reply, pick) ==
    LET ai == callClaudeAPIForRouteV2(reply)
        w == Walk([stops |-> <<StartStop(startLat, startLng, depMinutes)>>,
                   totalDist |-> 0, currentTime |-> depMinutes,
                   prevLat |-> startLat],
                  0, ai.routeIDs, ai.stayDurations,
                  driveSpots \o restaurants \o restSpots)
        returnDist == haversine(w.prevLat, Lng0, startLat, startLng)
        currentTime == w.currentTime + DrivingMin(returnDist)
    IN IF ai.panic THEN [panic |-> TRUE]
       ELSE [panic |-> FALSE,
             Stops |-> Append(w.stops, EndStop(startLat, startLng, returnDist,
                                               currentTime)),
             TotalDistanceKm |-> Round1(w.totalDist + returnDist),
             TotalTimeMin |-> currentTime - depMinutes,
             EstimatedReturn |-> minutesToTime(currentTime),
             message |-> ai.message, fallback |-> FALSE]

buildRouteWithAI(startLat, startLng, driveSpots, restaurants, restSpots, depMinutes, reply, pick) ==
    LET ai == callClaudeAPIForRouteV2(reply)
        spotMap == driveSpots \o restaurants \o restSpots
        start == StartStop(startLat, startLng, depMinutes)
        w == Walk([stops |-> <<start>>, totalDist |-> 0,
                   currentTime |-> depMinutes, prevLat |-> startLat],
                  0, ai.routeIDs, ai.stayDurations, spotMap)
        returnDist == haversine(w.prevLat, Lng0, startLat, startLng)
        currentTime == w.currentTime + DrivingMin(returnDist)
        stops == Append(w.stops,
                        EndStop(startLat, startLng, returnDist, currentTime))
        \* the fallback
        spot == driveSpots[(pick % Len(driveSpots)) + 1]
        dist == haversine(startLat, startLng, spot.lat, spot.lng)
        travelMin == DrivingMin(dist)
        arriveTime == depMinutes + travelMin
        returnTime == arriveTime + 40 + travelMin
    IN IF ai.panic THEN [panic |-> TRUE]
       ELSE IF Len(stops) <= 2 /\ Len(driveSpots) > 0
       THEN [panic |-> FALSE,
             Stops |-> <<RouteStop(0, "start", startLat, startLng, 0,
                                   minutesToTime(depMinutes), 0),
                         RouteStop(spot.id, spot.category, spot.lat, spot.lng,
                                   Round1(dist), minutesToTime(arriveTime), 40),
                         RouteStop(0, "end", startLat, startLng, Round1(dist),
                                   minutesToTime(returnTime), 0)>>,
             TotalDistanceKm |-> Round1(dist * 2),
             TotalTimeMin |-> returnTime - depMinutes,
             EstimatedReturn |-> minutesToTime(returnTime),
             message |-> RouteFallbackMessage, fallback |-> TRUE]
       ELSE [panic |-> FALSE, Stops |-> stops,
             TotalDistanceKm |-> Round1(w.totalDist + returnDist),
             TotalTimeMin |-> currentTime - depMinutes,
             EstimatedReturn |-> minutesToTime(currentTime),
             message |-> ai.message, fallback |-> FALSE]

\* The ids of a route's stops with ID > 0.
RECURSIVE RealStopIDs(_)
RealStopIDs(stops) ==
    IF stops = <<>> THEN <<>>
    ELSE IF Head(stops).ID > 0
    THEN <<Head(stops).ID>> \o RealStopIDs(Tail(stops))
    ELSE RealStopIDs(Tail(stops))

----------------------------------------------------------------------------
(* Query parameters *)

\* strconv.ParseInt(l, 10, 64) of the limit query parameter
ParseInt(l) ==
    CASE l = "1" -> [ok |-> TRUE, value |-> 1]
      [] l = "0" -> [ok |-> TRUE, value |-> 0]
      [] l = "-1" -> [ok |-> TRUE, value |-> -1]
      [] OTHER -> [ok |-> FALSE, value |-> 0]

\* A reply whose text is one JSON object.
Parsed(ids, durs, msg) == Reply("text", <<"{", "J", "}">>, ids, durs, msg)

NetErr == Reply("neterr", <<>>, <<>>, <<>>, "")

\* A reply text with its last "}" before its first "{".
Reversed == Reply("text", <<"}", "J", "{">>, <<>>, <<>>, "")

NoCall == [fn |-> "none"]

Idle == [handler |-> "none", user |-> "", status |-> ""]

\* The users some table mentions.
KnownUsers ==
    users \cup {visit_history[i].user_id : i \in 1..Len(visit_history)}
          \cup {recommendation_history[i].user_id :
                    i \in 1..Len(recommendation_history)}
          \cup {route_history[i].user_id : i \in 1..Len(route_history)}

\* A request is taken when the last one is answered; the id made for a
\* request without cookie is one no table holds.
Accepts(cookie, fresh) ==
    /\ resp = Idle
    /\ cookie = "" => fresh \notin KnownUsers

----------------------------------------------------------------------------
(* Handlers *)

\* POST /api/recommend
HandleRecommend(cookie, fresh, body, reply) ==
    LET userID == getUserID(cookie, fresh)
        req == WithDefaults(body)
        visitedSet == IF Fails("GetUserVisitedSpotIDs") THEN {}
                      ELSE GetUserVisitedSpotIDs(userID)
        recentSet == IF Fails("GetRecentRecommendations") THEN {}
                     ELSE GetRecentRecommendations(userID)
        candidates == FilterCandidates(GetAllSpots, visitedSet, req)
        r == RecommendFrom(candidates, recentSet, reply)
        recorded == /\ ~r.panic
                    /\ ~Fails("AddRecommendationHistory")
                    /\ fkEnforced => userID \in GetOrCreateUser(userID)
    IN /\ Accepts(cookie, fresh)
       /\ UNCHANGED <<visit_history, route_history, now, fkEnforced, fault, call>>
       /\ IF body = Malformed
          THEN /\ resp' = [handler |-> "recommend", user |-> userID,
                           status |-> "400"]
               /\ UNCHANGED <<users, recommendation_history, writes>>
          ELSE /\ writes < MaxWrites
               /\ writes' = writes + 1
               /\ users' = GetOrCreateUser(userID)
               /\ IF Fails("GetAllSpots")
                  THEN /\ resp' = [handler |-> "recommend", user |-> userID,
                                   status |-> "500", body |-> body,
                                   reply |-> reply, candidates |-> <<>>,
                                   spots |-> <<>>, message |-> "",
                                   llmCalls |-> 0, valid |-> 0,
                                   rowsBefore |-> Len(recommendation_history)]
                       /\ UNCHANGED recommendation_history
                  ELSE /\ recommendation_history' =
                             IF recorded
                             THEN AddRecommendationHistory(
                                      recommendation_history, userID,
                                      IDsOf(r.result))
                             ELSE recommendation_history
                       /\ resp' = [handler |-> "recommend", user |-> userID,
                                   status |-> IF r.panic THEN "aborted" ELSE "200",
                                   body |-> body, reply |-> reply,
                                   candidates |-> candidates,
                                   spots |-> IDsOf(r.result),
                                   message |-> r.message,
                                   llmCalls |-> r.llmCalls, valid |-> r.valid,
                                   rowsBefore |-> Len(recommendation_history)]

\* POST /api/recommend up to the LLM call, for a request that reaches it: the
\* reads of the store and the candidates, held by the request while the call
\* is out.  Other requests are served meanwhile.
ReadForRecommend(cookie, fresh, body) ==
    LET userID == getUserID(cookie, fresh)
        req == WithDefaults(body)
        visitedSet == IF Fails("GetUserVisitedSpotIDs") THEN {}
                      ELSE GetUserVisitedSpotIDs(userID)
        recentSet == IF Fails("GetRecentRecommendations") THEN {}
                     ELSE GetRecentRecommendations(userID)
        candidates == FilterCandidates(GetAllSpots, visitedSet, req)
    IN /\ Accepts(cookie, fresh)
       /\ call = NoCall
       /\ body # Malformed
       /\ ~Fails("GetAllSpots")
       /\ candidates # <<>>
       /\ writes < MaxWrites
       /\ writes' = writes + 1
       /\ users' = GetOrCreateUser(userID)
       /\ call' = [fn |-> "getAIRecommendations", user |-> userID,
                   body |-> body, candidates |-> candidates,
                   recentSet |-> recentSet]
       /\ UNCHANGED <<visit_history, recommendation_history, route_history,
                      now, fkEnforced, fault, resp>>

\* POST /api/recommend from the LLM call on: the reply is mapped to spots,
\* the rows are written and the response is sent.
AnswerRecommend(reply) ==
    LET userID == call.user
        r == RecommendFrom(call.candidates, call.recentSet, reply)
        recorded == /\ ~r.panic
                    /\ ~Fails("AddRecommendationHistory")
                    /\ fkEnforced => userID \in users
    IN /\ call.fn = "getAIRecommendations"
       /\ resp = Idle
       /\ call' = NoCall
       /\ recommendation_history' =
             IF recorded
             THEN AddRecommendationHistory(recommendation_history, userID,
                                           IDsOf(r.result))
             ELSE recommendation_history
       /\ resp' = [handler |-> "recommend", user |-> userID,
                   status |-> IF r.panic THEN "aborted" ELSE "200",
                   body |-> call.body, reply |-> reply,
                   candidates |-> call.candidates,
                   spots |-> IDsOf(r.result), message |-> r.message,
                   llmCalls |-> r.llmCalls, valid |-> r.valid,
                   rowsBefore |-> Len(recommendation_history)]
       /\ UNCHANGED <<users, visit_history, route_history, now, fkEnforced,
                      fault, writes>>

\* POST /api/route
HandleGenerateRoute(cookie, fresh, body, reply, seed, pick) ==
    LET userID == getUserID(cookie, fresh)
        req == [body EXCEPT !.DepartureTime = IF @ = <<>> THEN <<10, 0>> ELSE @]
        availableMin == AvailableMinutes(req)
        recentHashSet == IF Fails("GetRecentRouteHashes") THEN {}
                         ELSE GetRecentRouteHashes(userID)
        allSpots == shuffleSpots(GetAllSpots, Len(GetAllSpots) - 1, seed)
        depMinutes == parseTimeToMinutes(req.DepartureTime)
        driveSpots == Bucket(allSpots, req, availableMin, "drive")
        restaurants == IF req.IncludeRestaurant
                       THEN Bucket(allSpots, req, availableMin, "restaurant")
                       ELSE <<>>
        restSpots == IF req.IncludeRest
                     THEN Bucket(allSpots, req, availableMin, "rest")
                     ELSE <<>>
        route == buildRouteWithAI(req.Lat, req.Lng, driveSpots, restaurants,
                                  restSpots, depMinutes, reply, pick)
        ids == RealStopIDs(route.Stops)
        h == computeRouteHash(ids)
        saves == Len(route.Stops) > 2 /\ Len(ids) > 0
        base == [handler |-> "route", user |-> userID, status |-> "200",
                 body |-> body, reply |-> reply, availableMin |-> availableMin,
                 driveSpots |-> IDsOf(driveSpots),
                 restaurants |-> IDsOf(restaurants),
                 restSpots |-> IDsOf(restSpots),
                 Stops |-> <<>>, TotalDistanceKm |-> 0, TotalTimeMin |-> 0,
                 DepartureTime |-> <<>>, EstimatedReturn |-> <<>>,
                 message |-> NoDriveMessage, llmCalls |-> 0,
                 fallback |-> FALSE, rowsBefore |-> Len(route_history),
                 recentHashes |-> recentHashSet]
    IN /\ Accepts(cookie, fresh)
       /\ UNCHANGED <<visit_history, recommendation_history, now, fkEnforced, fault,
                      call>>
       /\ IF body = Malformed
          THEN /\ resp' = [handler |-> "route", user |-> userID, status |-> "400"]
               /\ UNCHANGED <<users, route_history, writes>>
          ELSE /\ writes < MaxWrites
               /\ writes' = writes + 1
               /\ users' = GetOrCreateUser(userID)
               /\ IF Fails("GetAllSpots")
                  THEN /\ resp' = [base EXCEPT !.status = "500", !.message = "",
                                               !.driveSpots = <<>>,
                                               !.restaurants = <<>>,
                                               !.restSpots = <<>>]
                       /\ UNCHANGED route_history
                  ELSE IF driveSpots = <<>>
                  THEN /\ resp' = base
                       /\ UNCHANGED route_history
                  ELSE IF route.panic
                  THEN /\ resp' = [base EXCEPT !.status = "aborted",
                                               !.message = "", !.llmCalls = 1]
                       /\ UNCHANGED route_history
                  ELSE /\ route_history' =
                             IF saves /\ ~Fails("AddRouteHistory")
                             THEN Append(route_history,
                                         [user_id |-> userID,
                                          route_hash |-> h.hash,
                                          spot_ids |-> h.ids])
                             ELSE route_history
                       /\ resp' = [base EXCEPT
                                     !.Stops = route.Stops,
                                     !.TotalDistanceKm = route.TotalDistanceKm,
                                     !.TotalTimeMin = route.TotalTimeMin,
                                     !.DepartureTime = req.DepartureTime,
                                     !.EstimatedReturn = route.EstimatedReturn,
                                     !.message = route.message,
                                     !.llmCalls = 1,
                                     !.fallback = route.fallback]

\* POST /api/feedback
HandleFeedback(cookie, fresh, body) ==
    LET userID == getUserID(cookie, fresh)
    IN /\ Accepts(cookie, fresh)
       /\ UNCHANGED <<users, recommendation_history, route_history, now,
                      fkEnforced, fault, call>>
       /\ IF body = Malformed
          THEN /\ resp' = [handler |-> "feedback", user |-> userID,
                           status |-> "400"]
               /\ UNCHANGED <<visit_history, writes>>
          ELSE IF ForeignKeysOK(userID, body.SpotID) /\ ~Fails("AddVisitHistory")
          THEN /\ writes < MaxWrites
               /\ writes' = writes + 1
               /\ visit_history' =
                     AddVisitHistory(userID, body.SpotID, body.Rating)
               /\ resp' = [handler |-> "feedback", user |-> userID,
                           status |-> "200", req |-> body,
                           row |-> Len(visit_history) + 1]
          ELSE /\ resp' = [handler |-> "feedback", user |-> userID,
                           status |-> "500", req |-> body, row |-> 0]
               /\ UNCHANGED <<visit_history, writes>>

\* GET /api/history
HandleGetHistory(cookie, fresh, l, order) ==
    LET userID == getUserID(cookie, fresh)
        parsed == ParseInt(l)
        limit == IF l # "" /\ parsed.ok THEN parsed.value ELSE DefaultHistoryLimit
    IN /\ Accepts(cookie, fresh)
       /\ order \in VisitOrders(userID)
       /\ resp' = IF Fails("GetUserVisitHistory")
                  THEN [handler |-> "history", user |-> userID,
                        status |-> "500", limitParam |-> l, history |-> <<>>]
                  ELSE [handler |-> "history", user |-> userID,
                        status |-> "200", limitParam |-> l,
                        history |-> GetUserVisitHistory(order, limit)]
       /\ UNCHANGED <<users, visit_history, recommendation_history,
                      route_history, now, fkEnforced, fault, writes, call>>

\* POST /api/accept
HandleAcceptRecommendation(cookie, fresh, body) ==
    LET userID == getUserID(cookie, fresh)
    IN /\ Accepts(cookie, fresh)
       /\ UNCHANGED <<users, visit_history, route_history, now, fkEnforced,
                      fault, call>>
       /\ IF body = Malformed
          THEN /\ resp' = [handler |-> "accept", user |-> userID,
                           status |-> "400"]
               /\ UNCHANGED <<recommendation_history, writes>>
          ELSE /\ UNCHANGED writes
               /\ recommendation_history' =
                     IF Fails("UpdateRecommendationAccepted")
                     THEN recommendation_history
                     ELSE UpdateRecommendationAccepted(userID, body.SpotID)
               /\ resp' = [handler |-> "accept", user |-> userID,
                           status |-> "200", req |-> body]

\* The store starts to fail the query q.
Break(q) ==
    /\ resp = Idle
    /\ fault = "none"
    /\ fault' = q
    /\ UNCHANGED <<users, visit_history, recommendation_history, route_history,
                   now, fkEnforced, resp, writes, call>>

\* The response is written and the request ends.
Respond ==
    /\ resp # Idle
    /\ resp' = Idle
    /\ UNCHANGED <<users, visit_history, recommendation_history, route_history,
                   now, fkEnforced, fault, writes, call>>

\* Time passes, to instant t.
Tick(t) ==
    /\ resp = Idle
    /\ t > now
    /\ now' = t
    /\ UNCHANGED <<users, visit_history, recommendation_history, route_history,
                   fkEnforced, fault, resp, writes, call>>

\* The store after the migrations, on a connection that enforces foreign
\* keys or on one that does not.
Init ==
    /\ users = {}
    /\ visit_history = <<>>
    /\ recommendation_history = <<>>
    /\ route_history = <<>>
    /\ now = 0
    /\ fkEnforced \in BOOLEAN
    /\ fault = "none"
    /\ resp = Idle
    /\ writes = 0
    /\ call = NoCall

----------------------------------------------------------------------------
(* Spec: the server with every endpoint, under a few requests of each. *)

\* The id getUserID makes for a request without cookie, "user_<nanoseconds>".
NewUserIDs == {"user_1"}

Cookies == {"", "u1"}

\* Two successive seconds, and an instant more than seven days later.
Instants == {0, 1, Week + 1}

Next ==
    \/ \E c \in Cookies, f \in NewUserIDs,
          b \in {RecommendRequest(0, 0, ""), Malformed},
          r \in {NetErr, Parsed(<<6, 1, 7>>, <<>>, "ai")} :
            HandleRecommend(c, f, b, r)
    \/ \E c \in Cookies, f \in NewUserIDs,
          b \in {RouteRequest(<<>>, <<>>, TRUE, FALSE), Malformed},
          r \in {NetErr, Parsed(<<1, 7>>, <<30, 45>>, "ai")} :
            HandleGenerateRoute(c, f, b, r, 0, 0)
    \/ \E c \in Cookies, f \in NewUserIDs,
          b \in {FeedbackRequest(1, 5), FeedbackRequest(UnknownSpot, 5), Malformed} :
            HandleFeedback(c, f, b)
    \/ \E c \in Cookies, f \in NewUserIDs, l \in {"", "1"} :
          \E o \in VisitOrders(getUserID(c, f)) : HandleGetHistory(c, f, l, o)
    \/ Respond
    \/ \E t \in Instants : Tick(t)

Spec == Init /\ [][Next]_vars

----------------------------------------------------------------------------
(* SpecRecommend: feedback and recommendations of a returning visitor and   *)
(* of a new one, with the clock.                                            *)

\* The recommend bodies: all defaults, a wider distance, a category with one
\* spot, a category with none.
RecommendRequests ==
    {RecommendRequest(0, 0, ""), RecommendRequest(200000, 0, ""),
     RecommendRequest(0, 0, "rest"), RecommendRequest(0, 0, "museum")}

\* The replies: a failed call, a reversed text, and objects with no id, with
\* two valid ids and an unknown one, with three valid ids, with a repeated id.
RecommendReplies ==
    {NetErr, Reversed,
     Parsed(<<>>, <<>>, ""),
     Parsed(<<1, 6, UnknownSpot>>, <<>>, "ai"),
     Parsed(<<6, 1, 7>>, <<>>, ""),
     Parsed(<<1, 1, 6>>, <<>>, "ai")}

NextRecommend ==
    \/ \E c \in Cookies, f \in NewUserIDs, b \in RecommendRequests,
          r \in RecommendReplies :
            HandleRecommend(c, f, b, r)
    \/ \E c \in Cookies, f \in NewUserIDs : HandleFeedback(c, f, FeedbackRequest(1, 5))
    \/ Respond
    \/ \E t \in Instants : Tick(t)

SpecRecommend == Init /\ [][NextRecommend]_vars

----------------------------------------------------------------------------
(* SpecVisit: feedback and the history fetch, with the clock. *)

FeedbackRequests ==
    {FeedbackRequest(1, 5), FeedbackRequest(6, 0), FeedbackRequest(UnknownSpot, 5),
     Malformed}

\* The limit query parameter of GET /api/history; "" is none.
LimitParams == {"", "1", "0", "abc"}

NextVisit ==
    \/ \E c \in Cookies, f \in NewUserIDs, b \in FeedbackRequests :
            HandleFeedback(c, f, b)
    \/ \E c \in Cookies, f \in NewUserIDs, l \in LimitParams :
          \E o \in VisitOrders(getUserID(c, f)) : HandleGetHistory(c, f, l, o)
    \/ \E c \in Cookies, f \in NewUserIDs :
            HandleRecommend(c, f, RecommendRequest(0, 0, "rest"), NetErr)
    \/ Respond
    \/ \E t \in Instants : Tick(t)

SpecVisit == Init /\ [][NextVisit]_vars

----------------------------------------------------------------------------
(* SpecRequest: one recommend or route request of a new visitor, over the   *)
(* request bodies and over what the LLM call may yield.                     *)

\* Every reply text of up to MaxTextLen tokens; an object in it carries the
\* given ids, durations and message.
TextReplies(ids, durs, msg) ==
    {Reply("text", t, ids, durs, msg) : t \in SeqsUpTo(Tokens, MaxTextLen)}

FailedCalls ==
    {Reply(k, <<>>, <<>>, <<>>, "") : k \in {"neterr", "nonjson", "nocontent"}}

\* Distances of 30, 60 and 100 (the default) km, budgets of 60, 75 and 180
\* (the default) minutes, and the categories.
WideRecommendRequests ==
    {RecommendRequest(d, t, c) :
        d \in {0, 30000, 60000}, t \in {0, 60, 75},
        c \in {"", "drive", "museum"}}

\* No times given (8 hours), 12:00 to 10:00 (not later), two hours, half an
\* hour (no drive spot in range), with and without restaurants and rests;
\* a request from 2 km further north; 10:00 to 18:00; and two hours from
\* 60 m further north, where distances are no multiples of 100 m.
WideRouteRequests ==
    {RouteRequest(dr[1], dr[2], ir, ir) :
        dr \in {<<<<>>, <<>>>>, <<<<12, 0>>, <<10, 0>>>>,
                <<<<10, 0>>, <<12, 0>>>>, <<<<10, 0>>, <<10, 30>>>>},
        ir \in BOOLEAN}
    \cup {[RouteRequest(<<>>, <<>>, TRUE, TRUE) EXCEPT !.Lat = 2000]}
    \cup {RouteRequest(<<10, 0>>, <<18, 0>>, FALSE, FALSE)}
    \cup {[RouteRequest(<<10, 0>>, <<12, 0>>, FALSE, FALSE) EXCEPT !.Lat = 60]}

WideRouteReplies ==
    FailedCalls \cup TextReplies(<<1, 7>>, <<30, 45>>, "ai")
    \cup {Parsed(<<UnknownSpot, 6, 7>>, <<60, 25>>, ""), Parsed(<<6, 1>>, <<-90>>, "ai"),
          Parsed(<<5, 2, 4>>, <<>>, ""), Parsed(<<2, 5, 4>>, <<>>, "ai"),
          Parsed(<<1, 5>>, <<60, 30>>, "ai")}

\* Clock readings of the shuffle and of the fallback's choice.
Seeds == {0, 1}
Picks == {0, 1, 2}

NextRequest ==
    \/ \E f \in NewUserIDs, b \in WideRecommendRequests,
          r \in FailedCalls \cup TextReplies(<<6, 1, 7>>, <<>>, "ai") :
            HandleRecommend("", f, b, r)
    \/ \E f \in NewUserIDs, b \in WideRouteRequests, r \in WideRouteReplies,
          sd \in Seeds, pk \in Picks :
            HandleGenerateRoute("", f, b, r, sd, pk)
    \/ Respond

SpecRequest == Init /\ [][NextRequest]_vars

----------------------------------------------------------------------------
(* SpecFilter: the candidates of a recommend request, for visitors with and *)
(* without visits, over the request bodies.                                 *)

NextFilter ==
    \/ \E c \in Cookies, f \in NewUserIDs, s \in {1, 6} :
            HandleFeedback(c, f, FeedbackRequest(s, 5))
    \/ \E c \in Cookies, f \in NewUserIDs, b \in WideRecommendRequests :
            HandleRecommend(c, f, b, NetErr)
    \/ Respond

SpecFilter == Init /\ [][NextFilter]_vars

----------------------------------------------------------------------------
(* SpecFault: the endpoints over a store one of whose queries fails. *)

\* The queries of dbgen the handlers call.
Queries ==
    {"GetOrCreateUser", "GetUserVisitedSpotIDs", "GetRecentRecommendations",
     "GetRecentRouteHashes", "GetAllSpots", "AddRecommendationHistory",
     "AddRouteHistory",
     "UpdateRecommendationAccepted", "AddVisitHistory", "GetUserVisitHistory"}

NextFault ==
    \/ \E q \in Queries : Break(q)
    \/ \E c \in Cookies, f \in NewUserIDs,
          r \in {NetErr, Parsed(<<6, 1, 7>>, <<>>, "ai")} :
            HandleRecommend(c, f, RecommendRequest(0, 0, ""), r)
    \/ \E c \in Cookies, f \in NewUserIDs :
            HandleGenerateRoute(c, f, RouteRequest(<<>>, <<>>, TRUE, FALSE),
                                Parsed(<<1, 7>>, <<30, 45>>, "ai"), 0, 0)
    \/ \E c \in Cookies, f \in NewUserIDs :
            HandleFeedback(c, f, FeedbackRequest(1, 5))
    \/ \E c \in Cookies, f \in NewUserIDs :
            HandleAcceptRecommendation(c, f, AcceptRequest(6))
    \/ \E c \in Cookies, f \in NewUserIDs :
          \E o \in VisitOrders(getUserID(c, f)) : HandleGetHistory(c, f, "", o)
    \/ Respond

SpecFault == Init /\ [][NextFault]_vars

----------------------------------------------------------------------------
(* SpecAccept: recommendations and their acceptance by two visitors. *)

AcceptRequests == {AcceptRequest(6), AcceptRequest(1), Malformed}

NextAccept ==
    \/ \E c \in Cookies, f \in NewUserIDs,
          r \in {NetErr, Parsed(<<6, 1, 7>>, <<>>, "ai")} :
            HandleRecommend(c, f, RecommendRequest(0, 0, ""), r)
    \/ \E c \in Cookies, f \in NewUserIDs, b \in AcceptRequests :
            HandleAcceptRecommendation(c, f, b)
    \/ Respond
    \/ \E t \in Instants : Tick(t)

SpecAccept == Init /\ [][NextAccept]_vars

----------------------------------------------------------------------------
(* SpecRoute: route requests of a returning visitor and of a new one. *)

\* Eight hours with restaurants, half an hour (no drive spot in range), and
\* a body that does not decode.
RouteRequests ==
    {RouteRequest(<<>>, <<>>, TRUE, FALSE),
     RouteRequest(<<10, 0>>, <<10, 30>>, TRUE, FALSE), Malformed}

\* A failed call, the same two spots in either order, an unknown id alone,
\* and a reversed text.
RouteReplies ==
    {NetErr, Parsed(<<1, 7>>, <<30, 45>>, "ai"), Parsed(<<7, 1>>, <<>>, "ai"),
     Parsed(<<UnknownSpot>>, <<60>>, "ai"), Reversed}

NextRoute ==
    \/ \E c \in Cookies, f \in NewUserIDs, b \in RouteRequests,
          r \in RouteReplies, pk \in Picks :
            HandleGenerateRoute(c, f, b, r, 0, pk)
    \/ Respond

SpecRoute == Init /\ [][NextRoute]_vars

----------------------------------------------------------------------------
(* SpecUsers: every endpoint, the acceptance included, under requests of a  *)
(* returning visitor and of a new one.                                      *)

NextUsers ==
    \/ Next
    \/ \E c \in Cookies, f \in NewUserIDs :
            HandleAcceptRecommendation(c, f, AcceptRequest(6))

SpecUsers == Init /\ [][NextUsers]_vars

----------------------------------------------------------------------------
(* SpecConcurrent: a recommend request whose LLM call is out while feedback *)
(* and recommend requests of the same and of another user are served.       *)

NextConcurrent ==
    \/ \E c \in Cookies, f \in NewUserIDs :
            ReadForRecommend(c, f, RecommendRequest(0, 0, ""))
    \/ \E r \in {NetErr, Parsed(<<6, 1, 7>>, <<>>, "ai")} : AnswerRecommend(r)
    \/ \E c \in Cookies, f \in NewUserIDs, s \in {1, 7} :
            HandleFeedback(c, f, FeedbackRequest(s, 5))
    \/ \E c \in Cookies, f \in NewUserIDs :
            HandleRecommend(c, f, RecommendRequest(0, 0, ""), NetErr)
    \/ Respond

SpecConcurrent == Init /\ [][NextConcurrent]_vars

----------------------------------------------------------------------------
(* SpecHash: computeRouteHash, called on a list of ids. *)

HashIDs == {1, 2, 3, 12}

InitHash ==
    /\ users = {}
    /\ visit_history = <<>>
    /\ recommendation_history = <<>>
    /\ route_history = <<>>
    /\ now = 0
    /\ fkEnforced = FALSE
    /\ fault = "none"
    /\ resp = Idle
    /\ writes = 0
    /\ call \in {[fn |-> "ids", ids |-> ids] : ids \in SeqsUpTo(HashIDs, MaxHashLen)}

CallRouteHash ==
    /\ call.fn = "ids"
    /\ call' = [fn |-> "computeRouteHash", ids |-> call.ids,
                out |-> computeRouteHash(call.ids)]
    /\ UNCHANGED <<users, visit_history, recommendation_history, route_history,
                   now, fkEnforced, fault, resp, writes>>

NextHash == CallRouteHash

SpecHash == InitHash /\ [][NextHash]_vars

----------------------------------------------------------------------------
(* Properties *)

\* A recommend response that carries a result.
RecommendAnswered == resp.handler = "recommend" /\ resp.status = "200"

\* The rows of visit_history of a user.
VisitRowsOf(user) ==
    {i \in 1..Len(visit_history) : visit_history[i].user_id = user}

\* The one-way distance, in metres, from the position of a body to a spot.
DistanceTo(id, body) ==
    LET spot == CHOOSE sp \in Range(GetAllSpots) : sp.id = id
    IN Abs(spot.lat - body.Lat)

\* The limits in force for a body, in metres and minutes.
MaxDistanceOf(body) ==
    IF body.MaxDistanceKm = 0 THEN 100 * 1000 ELSE body.MaxDistanceKm
MaxMinutesOf(body) ==
    IF body.MaxTimeHours = 0 THEN 3 * 60 ELSE body.MaxTimeHours

\* C1: no recommend response holds a spot, among its candidates or its
\* returned spots, for which the requesting user has a visit_history row
\* when the request reads the history.
C1_VisitedNeverRecommended ==
    RecommendAnswered =>
        \A i \in VisitRowsOf(resp.user) :
            /\ visit_history[i].spot_id \notin Range(resp.spots)
            /\ visit_history[i].spot_id \notin Range(IDsOf(resp.candidates))

\* A user with a visit of spot 1 gets a non-empty recommendation although
\* the LLM reply names spot 1.
C1_Witness ==
    /\ RecommendAnswered
    /\ \E i \in VisitRowsOf(resp.user) : visit_history[i].spot_id = 1
    /\ 1 \in Range(resp.reply.ids)
    /\ resp.spots # <<>>

\* C2 as stated: no candidate lies farther than the maximum distance, and
\* none has a travel time distance / 40 km/h above the time budget.
C2_ExactTravelTime ==
    RecommendAnswered =>
        \A i \in 1..Len(resp.candidates) :
            LET dist == DistanceTo(resp.candidates[i].id, resp.body)
            IN /\ dist <= MaxDistanceOf(resp.body)
               /\ dist * 60 <= MaxMinutesOf(resp.body) * 40 * 1000

\* C2, amended: no candidate lies farther than the maximum distance, and
\* none has a travel time at 40 km/h that, cut to whole minutes, is above the
\* time budget: a candidate is less than one minute of driving over it.
C2_WholeMinuteTravelTime ==
    RecommendAnswered =>
        \A i \in 1..Len(resp.candidates) :
            LET dist == DistanceTo(resp.candidates[i].id, resp.body)
            IN /\ dist <= MaxDistanceOf(resp.body)
               /\ dist * 60 < (MaxMinutesOf(resp.body) + 1) * 40 * 1000

\* A request with limits of its own leaves out one spot for its distance and
\* another, within the distance, for its travel time, and keeps a third.
C2_Witness ==
    /\ RecommendAnswered
    /\ resp.body.MaxDistanceKm # 0 /\ resp.body.MaxTimeHours # 0
    /\ resp.candidates # <<>>
    /\ \E id \in SpotIDs : DistanceTo(id, resp.body) > resp.body.MaxDistanceKm
    /\ \E id \in SpotIDs :
          /\ DistanceTo(id, resp.body) <= resp.body.MaxDistanceKm
          /\ DistanceTo(id, resp.body) * 60 >= (resp.body.MaxTimeHours + 1) * 40 * 1000
          /\ id \notin Range(IDsOf(resp.candidates))

\* C3: a recommend request with no candidate answers an empty spot list with
\* the fixed message, makes no LLM call and writes no recommendation_history
\* row.
C3_EmptyCandidates ==
    RecommendAnswered /\ resp.candidates = <<>> =>
        /\ resp.spots = <<>>
        /\ resp.message = NoMatchMessage
        /\ resp.llmCalls = 0
        /\ Len(recommendation_history) = resp.rowsBefore

\* A request for a category no spot has, by a user with earlier rows.
C3_Witness ==
    /\ RecommendAnswered
    /\ resp.candidates = <<>>
    /\ resp.body.Category = "museum"
    /\ resp.rowsBefore > 0

\* A recommend or route request that went as far as its LLM call.
CalledLLM ==
    /\ resp.handler \in {"recommend", "route"}
    /\ resp.status # "400"
    /\ resp.llmCalls = 1

\* C4: whatever the LLM call yields (a failed call, a body that is no JSON,
\* no content, a text with its braces missing or in any arrangement, an
\* embedded object that does not parse), the recommend or route request
\* completes with a normal response.
C4_LLMFailureSwallowed == CalledLLM => resp.status = "200"

\* The recently recommended spots of the requesting user as the request finds
\* them: the rows of the last seven days that were there before it.
RecentBefore ==
    {recommendation_history[j].spot_id :
        j \in {k \in 1..resp.rowsBefore :
                 /\ recommendation_history[k].user_id = resp.user
                 /\ recommendation_history[k].recommended_at > now - 7 * 24 * 60 * 60}}

\* C5: when the LLM reply yields no valid spot id, the spots returned hold
\* none of the user's recently recommended spots, and at most 5 spots.
C5_FallbackSkipsRecent ==
    RecommendAnswered /\ resp.llmCalls = 1 /\ resp.valid = 0 =>
        /\ Range(resp.spots) \cap RecentBefore = {}
        /\ Len(resp.spots) <= 5

\* A fallback that passes over a recently recommended candidate and stops at
\* 5 spots with a fresh candidate left.
C5_Witness ==
    /\ RecommendAnswered /\ resp.llmCalls = 1 /\ resp.valid = 0
    /\ Range(IDsOf(resp.candidates)) \cap RecentBefore # {}
    /\ Len(resp.spots) = 5
    /\ Range(IDsOf(resp.candidates)) \ (RecentBefore \cup Range(resp.spots)) # {}

\* C6: after a recommend response the request has added, for each returned
\* spot, a recommendation_history row of the requesting user and that spot
\* with was_accepted false.
C6_ReturnedSpotsRecorded ==
    RecommendAnswered =>
        \A i \in 1..Len(resp.spots) :
            \E j \in (resp.rowsBefore + 1)..Len(recommendation_history) :
                /\ recommendation_history[j].user_id = resp.user
                /\ recommendation_history[j].spot_id = resp.spots[i]
                /\ recommendation_history[j].was_accepted = FALSE

\* A response with three spots for a user who already has rows.
C6_Witness ==
    /\ RecommendAnswered
    /\ Len(resp.spots) >= 3
    /\ resp.rowsBefore > 0
    /\ \E j \in 1..resp.rowsBefore : recommendation_history[j].user_id = resp.user

\* C7: each row of visit_history, recommendation_history and route_history
\* has a user_id for which a users row exists.
C7_UserRowExists ==
    /\ \A i \in 1..Len(visit_history) : visit_history[i].user_id \in users
    /\ \A i \in 1..Len(recommendation_history) :
          recommendation_history[i].user_id \in users
    /\ \A i \in 1..Len(route_history) : route_history[i].user_id \in users

\* A route response that carries a result.
RouteAnswered == resp.handler = "route" /\ resp.status = "200"

\* The first stop is the start and the last stop the end, both at the
\* position of the request with ID 0.
StartsAndEndsAtRequest ==
    LET n == Len(resp.Stops)
    IN /\ n >= 2
       /\ resp.Stops[1].Category = "start"
       /\ resp.Stops[n].Category = "end"
       /\ \A k \in {1, n} :
             /\ resp.Stops[k].ID = 0
             /\ resp.Stops[k].Lat = resp.body.Lat
             /\ resp.Stops[k].Lng = resp.body.Lng

\* C8 as stated: every route response starts with the start stop and ends
\* with the end stop, also when no drive spot is in range.
C8_EveryRouteHasStartAndEnd == RouteAnswered => StartsAndEndsAtRequest

\* C8, amended: a route response with a drive spot in range, on the LLM path
\* and on the fallback path, starts with the start stop and ends with the
\* end stop; with no drive spot in range its stop list is empty.
C8_StartAndEndUnlessNoDrive ==
    RouteAnswered =>
        IF resp.driveSpots = <<>>
        THEN resp.Stops = <<>>
        ELSE StartsAndEndsAtRequest

\* A route of the LLM's choice with stops between start and end, for a
\* request from 2 km north.
C8_Witness ==
    /\ RouteAnswered
    /\ resp.body.Lat = 2000
    /\ ~resp.fallback
    /\ Len(resp.Stops) > 2

\* The list ids in the order pi of its positions.
Permuted(ids, pi) == [i \in 1..Len(ids) |-> ids[pi[i]]]

\* C9: computeRouteHash returns, for every permutation of its ID list, the
\* string it returns for the list, and leaves the list of its caller as it
\* was.
C9_HashOrderIndependent ==
    call.fn = "computeRouteHash" =>
        /\ \A pi \in Permutations(1..Len(call.ids)) :
              computeRouteHash(Permuted(call.ids, pi)).hash = call.out.hash
        /\ call.out.ids = call.ids

\* The call on [3, 1, 2], which returns the string of [1, 2, 3].
C9_Witness ==
    /\ call.fn = "computeRouteHash"
    /\ call.ids = <<3, 1, 2>>
    /\ call.out.hash = computeRouteHash(<<1, 2, 3>>).hash
    /\ call.out.hash = "[1 2 3]"

\* C10: a history fetch with the default limit, by a user whose latest
\* accepted feedback gave rating 5 to a known spot, returns that visit as its
\* first entry.
C10_LatestVisitFirst ==
    resp.handler = "history" /\ resp.limitParam = "" /\ VisitRowsOf(resp.user) # {} =>
        LET last == CHOOSE i \in VisitRowsOf(resp.user) :
                        \A j \in VisitRowsOf(resp.user) : j <= i
        IN visit_history[last].rating = 5 /\ visit_history[last].spot_id \in SpotIDs =>
              /\ resp.history # <<>>
              /\ resp.history[1].id = visit_history[last].id

\* C11: a request with a malformed JSON body (recommend, route, feedback)
\* and a history fetch whose limit parameter is not a number are answered
\* 400: no other answer is given to a malformed body or to such a limit.
C11_InputErrorsAnswered400 ==
    /\ resp.handler \in {"recommend", "route"} /\ resp.status # "400" =>
          resp.body # Malformed
    /\ resp.handler = "feedback" /\ resp.status # "400" => resp.req # Malformed
    /\ resp.handler = "history" /\ resp.limitParam # ""
          /\ ~ParseInt(resp.limitParam).ok => resp.status = "400"

\* The queries the request being answered has called for certain.
QueriesCalled ==
    IF resp.status = "400" THEN {}
    ELSE IF resp.handler = "recommend"
    THEN {"GetOrCreateUser", "GetUserVisitedSpotIDs",
          "GetRecentRecommendations", "GetAllSpots"}
         \cup (IF resp.spots # <<>> THEN {"AddRecommendationHistory"} ELSE {})
    ELSE IF resp.handler = "route"
    THEN {"GetOrCreateUser", "GetRecentRouteHashes", "GetAllSpots"}
         \cup (IF Len(resp.Stops) > 2 THEN {"AddRouteHistory"} ELSE {})
    ELSE IF resp.handler = "feedback" THEN {"AddVisitHistory"}
    ELSE IF resp.handler = "accept" THEN {"UpdateRecommendationAccepted"}
    ELSE IF resp.handler = "history" THEN {"GetUserVisitHistory"}
    ELSE {}

\* C12: a request one of whose queries fails (user upsert, visited-ID read,
\* recent-recommendation read, spot read, recommendation-history insert,
\* route-history insert, accepted-flag update, visit insert, history read) is
\* answered 500.
C12_StorageErrorsAnswered500 ==
    fault \in QueriesCalled => resp.status = "500"

\* The category of a spot.
CategoryOf(id) == (CHOOSE sp \in Range(GetAllSpots) : sp.id = id).category

\* The spots that are unvisited by the requesting user, of the category asked
\* for when one is, and within the maximum distance.
UnvisitedInCategoryAndDistance ==
    {id \in SpotIDs :
        /\ \A i \in VisitRowsOf(resp.user) : visit_history[i].spot_id # id
        /\ resp.body.Category # "" => CategoryOf(id) = resp.body.Category
        /\ DistanceTo(id, resp.body) <= MaxDistanceOf(resp.body)}

\* C13 as stated: the candidates are exactly the spots that are unvisited,
\* of the category asked for, within the maximum distance and with a driving
\* time at 40 km/h within the time budget.
C13_ExactCandidateSet ==
    RecommendAnswered =>
        Range(IDsOf(resp.candidates)) =
            {id \in UnvisitedInCategoryAndDistance :
                DistanceTo(id, resp.body) * 60 <= MaxMinutesOf(resp.body) * 40 * 1000}

\* C13, amended: the candidates are exactly the spots that are unvisited, of
\* the category asked for, within the maximum distance and with a driving
\* time at 40 km/h that, cut to whole minutes, is within the time budget; of
\* the drive spots at 10, 50 and 120 km a new visitor's request with 100 km
\* and 3 h keeps the first two and drops the third, for its distance alone.
C13_CandidateSetWholeMinutes ==
    RecommendAnswered =>
        /\ Range(IDsOf(resp.candidates)) =
              {id \in UnvisitedInCategoryAndDistance :
                  DistanceTo(id, resp.body) * 60 <
                      (MaxMinutesOf(resp.body) + 1) * 40 * 1000}
        /\ resp.body = RecommendRequest(0, 0, "drive") /\ VisitRowsOf(resp.user) = {} =>
              /\ {1, 2} \subseteq Range(IDsOf(resp.candidates))
              /\ 3 \notin Range(IDsOf(resp.candidates))
              /\ DistanceTo(3, resp.body) = 120 * 1000
              /\ DistanceTo(3, resp.body) * 60 <= 3 * 60 * 40 * 1000

\* A request for drive spots within 60 km by a visitor of spot 1: spot 1 is
\* left out as visited, spot 3 for its distance, spot 7 for its category.
C13_Witness ==
    /\ RecommendAnswered
    /\ resp.body = RecommendRequest(60000, 0, "drive")
    /\ \E i \in VisitRowsOf(resp.user) : visit_history[i].spot_id = 1
    /\ Range(IDsOf(resp.candidates)) = {6, 2}

\* A clock time of a request body in minutes; none given is 0.
MinutesOf(t) == IF t = <<>> THEN 0 ELSE t[1] * 60 + t[2]

\* The available time of the route request being answered, in minutes: return
\* minus departure (10:00 when none is given) when a return time is given and
\* is later, 8 hours otherwise.
AvailableOf(body) ==
    LET dep == IF body.DepartureTime = <<>> THEN 10 * 60
               ELSE MinutesOf(body.DepartureTime)
    IN IF body.ReturnTime # <<>> /\ MinutesOf(body.ReturnTime) > dep
       THEN MinutesOf(body.ReturnTime) - dep
       ELSE 8 * 60

\* C14: the available time of a route request is return minus departure
\* when a return time is given and is later, 8 hours otherwise; the drive
\* spots kept are those within the one-way leg of available hours x 40 x 0.5
\* / 3 km, that is, of 1000/9 metres per available minute; 10:00 to 18:00
\* gives 8 hours and a leg of 160/3 km.
C14_TimeBudget ==
    RouteAnswered =>
        /\ resp.availableMin = AvailableOf(resp.body)
        /\ Range(resp.driveSpots) =
              {id \in SpotIDs :
                  /\ CategoryOf(id) = "drive"
                  /\ DistanceTo(id, resp.body) * 9 <= AvailableOf(resp.body) * 1000}
        /\ resp.body.DepartureTime = <<10, 0>> /\ resp.body.ReturnTime = <<18, 0>> =>
              /\ resp.availableMin = 8 * 60
              /\ Range(resp.driveSpots) =
                    {id \in SpotIDs :
                        /\ CategoryOf(id) = "drive"
                        /\ DistanceTo(id, resp.body) * 3 <= 160 * 1000}

\* The request from 10:00 to 18:00: the drive spot at 50 km is within the leg
\* of 53.3 km, the one at 120 km is not.
C14_Witness ==
    /\ RouteAnswered
    /\ resp.body.DepartureTime = <<10, 0>> /\ resp.body.ReturnTime = <<18, 0>>
    /\ resp.availableMin = 480
    /\ 2 \in Range(resp.driveSpots)
    /\ 3 \notin Range(resp.driveSpots)

\* C15: a recommend request and a route request make at most one LLM call,
\* whether the call succeeds, fails or yields an unusable reply.
C15_NoRetry ==
    resp.handler \in {"recommend", "route"} /\ resp.status # "400" =>
        resp.llmCalls <= 1

\* A recommend request whose one LLM call returned a body that is no JSON,
\* answered by the fallback.
C15_Witness ==
    /\ RecommendAnswered
    /\ resp.reply.kind = "nonjson"
    /\ resp.llmCalls = 1
    /\ resp.spots # <<>>

\* C16: every visit_history row has a rating that is null or in 1..5.  No
\* row has a null rating, as HandleFeedback always passes a rating.
C16_RatingInRange ==
    \A i \in 1..Len(visit_history) : visit_history[i].rating \in 1..5

\* C17: no step removes a recommendation_history row or changes its user,
\* spot or time; was_accepted changes only from false to true, and only in an
\* accept request of the row's user for the row's spot.
C17_AppendOnlyAcceptedFlag ==
    [][/\ Len(recommendation_history') >= Len(recommendation_history)
       /\ \A i \in 1..Len(recommendation_history) :
            LET old == recommendation_history[i]
                new == recommendation_history'[i]
            IN /\ new.user_id = old.user_id
               /\ new.spot_id = old.spot_id
               /\ new.recommended_at = old.recommended_at
               /\ old.was_accepted => new.was_accepted
               /\ new.was_accepted # old.was_accepted =>
                     /\ resp'.handler = "accept"
                     /\ resp'.status = "200"
                     /\ resp'.user = old.user_id
                     /\ resp'.req.SpotID = old.spot_id]_vars

\* An accept request that set the flag of the user's row for the spot, with
\* a row of the user for another spot and a row of another user for the same
\* spot left false.
C17_Witness ==
    /\ resp.handler = "accept" /\ resp.status = "200"
    /\ \E i, j, k \in 1..Len(recommendation_history) :
          LET a == recommendation_history[i]
              b == recommendation_history[j]
              c == recommendation_history[k]
          IN /\ a.user_id = resp.user /\ a.spot_id = resp.req.SpotID
             /\ a.was_accepted
             /\ b.user_id = resp.user /\ b.spot_id # resp.req.SpotID
             /\ ~b.was_accepted
             /\ c.user_id # resp.user /\ c.spot_id = resp.req.SpotID
             /\ ~c.was_accepted

\* The ids of the LLM reply that are candidates of the request, in the order
\* of the reply.
Surviving ==
    LET IsCandidateID(id) == id \in Range(IDsOf(resp.candidates))
    IN SelectSeq(callClaudeAPI(resp.reply).spotIDs, IsCandidateID)

\* The candidates that are neither surviving nor recently recommended, in
\* their filtered order.
FurtherCandidates ==
    LET IsFurther(id) == id \notin Range(Surviving) /\ id \notin RecentBefore
    IN SelectSeq(IDsOf(resp.candidates), IsFurther)

\* C18: with fewer than 3 surviving spots the result is the surviving spots
\* followed by the further candidates, as many as bring it to 5 or as there
\* are; with 3 or more it is the surviving spots.
C18_FallbackPolicy ==
    RecommendAnswered /\ resp.llmCalls = 1 =>
        resp.spots =
            IF Len(Surviving) >= 3 THEN Surviving
            ELSE LET room == 5 - Len(Surviving)
                     n == IF Len(FurtherCandidates) < room
                          THEN Len(FurtherCandidates) ELSE room
                 IN Surviving \o SubSeq(FurtherCandidates, 1, n)

\* Two spots of the reply survive and three further candidates follow, one
\* recently recommended candidate being passed over.
C18_Witness ==
    /\ RecommendAnswered /\ resp.llmCalls = 1
    /\ Surviving = <<1, 6>>
    /\ Len(resp.spots) = 5
    /\ Range(IDsOf(resp.candidates)) \cap RecentBefore # {}

\* C19: a recommend response with candidates has the fixed fallback sentence
\* as its message when the LLM gave none, however many valid ids the reply
\* carried, and never an empty message.
C19_MessageNeverEmpty ==
    RecommendAnswered /\ resp.candidates # <<>> =>
        /\ callClaudeAPI(resp.reply).message = "" => resp.message = FallbackMessage
        /\ resp.message # ""

\* C20: every spot of a recommend response is a candidate of the request, so
\* unvisited, of the category asked for and within the maximum distance,
\* whatever ids the LLM reply holds.
C20_OnlyCandidatesReturned ==
    RecommendAnswered =>
        /\ Range(resp.spots) \subseteq Range(IDsOf(resp.candidates))
        /\ Range(resp.spots) \subseteq UnvisitedInCategoryAndDistance

\* A reply naming a spot the user has visited and an id no spot has; neither
\* is returned, other spots are.
C20_Witness ==
    /\ RecommendAnswered
    /\ resp.reply.kind = "text"
    /\ UnknownSpot \in Range(resp.reply.ids)
    /\ \E id \in Range(resp.reply.ids) :
          /\ id \in SpotIDs
          /\ \E i \in VisitRowsOf(resp.user) : visit_history[i].spot_id = id
          /\ id \notin Range(resp.spots)
    /\ UnknownSpot \notin Range(resp.spots)
    /\ resp.spots # <<>>

\* The stops of the route response between the start and the end stop.
Intermediate == SubSeq(resp.Stops, 2, Len(resp.Stops) - 1)

\* The ids of the reply that the route of the response could use: those of
\* spots within the one-way leg whose category the request admits.
InBuckets(id) ==
    /\ id \in SpotIDs
    /\ DistanceTo(id, resp.body) * 9 <= AvailableOf(resp.body) * 1000
    /\ CategoryOf(id) \in {"drive", "restaurant", "rest"}
    /\ CategoryOf(id) = "restaurant" => resp.body.IncludeRestaurant
    /\ CategoryOf(id) = "rest" => resp.body.IncludeRest

\* C21: every intermediate stop of a route response is a spot within the
\* one-way leg of the origin whose category passed the include flags: a
\* restaurant only with include_restaurant, a rest spot only with
\* include_rest; on the LLM path the stops are the ids of the reply that are
\* in the buckets, in the reply's order, the others being skipped.
C21_StopsFromBuckets ==
    RouteAnswered =>
        /\ \A k \in 1..Len(Intermediate) :
              /\ InBuckets(Intermediate[k].ID)
              /\ Intermediate[k].Category = CategoryOf(Intermediate[k].ID)
        /\ ~resp.fallback /\ resp.driveSpots # <<>> =>
              [k \in 1..Len(Intermediate) |-> Intermediate[k].ID] =
                 SelectSeq(callClaudeAPIForRouteV2(resp.reply).routeIDs, InBuckets)

\* A two-hour request without restaurants whose reply names the drive spot
\* at 10 km and the restaurant at 15 km: the route visits the drive spot
\* alone.
C21_Witness ==
    /\ RouteAnswered
    /\ ~resp.fallback
    /\ ~resp.body.IncludeRestaurant
    /\ resp.availableMin = 120
    /\ 7 \in Range(callClaudeAPIForRouteV2(resp.reply).routeIDs)
    /\ Len(Intermediate) = 1
    /\ Intermediate[1].ID = 1

\* The minutes of the leg that ends at stop k of the response: the distance
\* from the stop before at 40 km/h, in whole minutes.
LegMinutes(k) ==
    (Abs(resp.Stops[k].Lat - resp.Stops[k - 1].Lat) * 60) \div (40 * 1000)

\* The clock on arrival at stop k: the departure, the legs up to stop k and
\* the stays at the stops before it.
RECURSIVE ClockAt(_)
ClockAt(k) ==
    IF k = 1 THEN MinutesOf(resp.DepartureTime)
    ELSE ClockAt(k - 1) + resp.Stops[k - 1].StayDuration + LegMinutes(k)

\* C22: in a route response with stops, on the LLM path and on the fallback
\* path, every stop's arrival time is the departure time plus the travel
\* minutes of the legs up to it plus the stays at the earlier stops; the end
\* stop's arrival time is the estimated return, and the total time is the
\* estimated return minus the departure.
C22_ClockAdvances ==
    RouteAnswered /\ resp.Stops # <<>> =>
        /\ \A k \in 1..Len(resp.Stops) :
              MinutesOf(resp.Stops[k].ArrivalTime) = ClockAt(k)
        /\ resp.Stops[Len(resp.Stops)].ArrivalTime = resp.EstimatedReturn
        /\ resp.TotalTimeMin =
              MinutesOf(resp.EstimatedReturn) - MinutesOf(resp.DepartureTime)

\* A route of the LLM's choice with two stops between start and end, each
\* with a stay, and legs that take time.
C22_Witness ==
    /\ RouteAnswered
    /\ ~resp.fallback
    /\ Len(resp.Stops) = 4
    /\ resp.Stops[2].StayDuration > 0 /\ resp.Stops[3].StayDuration > 0
    /\ \A k \in 2..4 : LegMinutes(k) > 0
    /\ resp.TotalTimeMin > 0

\* The positions of the reply's route_ids, from position i on, whose id the
\* route could use.
RECURSIVE UsedPositions(_)
UsedPositions(i) ==
    LET routeIDs == callClaudeAPIForRouteV2(resp.reply).routeIDs
    IN IF i > Len(routeIDs) THEN <<>>
       ELSE (IF InBuckets(routeIDs[i]) THEN <<i>> ELSE <<>>) \o UsedPositions(i + 1)

\* The stay the server gives a stop of a category when the reply lists none
\* for it.
DefaultStay(category) ==
    CASE category = "restaurant" -> 50
      [] category = "rest" -> 20
      [] category = "drive" -> 40
      [] OTHER -> 30

\* C23: on the LLM path the stay of every stop between start and end is the
\* entry of the reply's stay_durations at the position the stop's id has in
\* route_ids, when the list reaches that position, and else the default of
\* the stop's category (restaurant 50, rest 20, drive 40, otherwise 30);
\* ids skipped earlier in the reply do not shift the positions.
C23_StayDurations ==
    RouteAnswered /\ ~resp.fallback /\ resp.Stops # <<>> =>
        LET stayDurations == callClaudeAPIForRouteV2(resp.reply).stayDurations
            used == UsedPositions(1)
        IN /\ Len(used) = Len(Intermediate)
           /\ \A k \in 1..Len(Intermediate) :
                 Intermediate[k].StayDuration =
                    IF used[k] <= Len(stayDurations)
                    THEN stayDurations[used[k]]
                    ELSE DefaultStay(Intermediate[k].Category)

\* A reply of an unknown id, a drive spot and a restaurant that lists two
\* stays: the drive spot stays for the second one, the restaurant for the
\* default of 50 minutes.
C23_Witness ==
    /\ RouteAnswered
    /\ ~resp.fallback
    /\ callClaudeAPIForRouteV2(resp.reply).routeIDs = <<UnknownSpot, 6, 7>>
    /\ callClaudeAPIForRouteV2(resp.reply).stayDurations = <<60, 25>>
    /\ Len(Intermediate) = 2
    /\ Intermediate[1].ID = 6 /\ Intermediate[1].StayDuration = 25
    /\ Intermediate[2].ID = 7 /\ Intermediate[2].StayDuration = 50

\* C24: a route response to a request with a drive spot in range, for which
\* the LLM call yielded no id the route could use, has exactly three stops:
\* the start, one spot of the drive bucket with a stay of 40 minutes, and
\* the end; its total distance is twice the one-way distance to that spot
\* (to 0.1 km), its total time twice the travel minutes plus 40, and its
\* estimated return the arrival time of the end stop.
C24_DegenerateRoute ==
    RouteAnswered /\ resp.driveSpots # <<>> /\ UsedPositions(1) = <<>> =>
        /\ Len(resp.Stops) = 3
        /\ resp.Stops[1].Category = "start"
        /\ resp.Stops[3].Category = "end"
        /\ resp.Stops[2].ID \in Range(resp.driveSpots)
        /\ resp.Stops[2].Category = "drive"
        /\ resp.Stops[2].StayDuration = 40
        /\ LET dist == DistanceTo(resp.Stops[2].ID, resp.body)
               travelMin == (dist * 60) \div (40 * 1000)
           IN /\ resp.TotalDistanceKm = Round1(2 * dist)
              /\ resp.TotalTimeMin = 2 * travelMin + 40
              /\ MinutesOf(resp.Stops[2].ArrivalTime) =
                    MinutesOf(resp.DepartureTime) + travelMin
        /\ resp.EstimatedReturn = resp.Stops[3].ArrivalTime

\* A two-hour request from 60 m north whose reply names only an unknown id
\* and spots out of range: the trip goes to the drive spot at 9.94 km, 14
\* minutes each way.
C24_Witness ==
    /\ RouteAnswered
    /\ resp.body.Lat = 60
    /\ callClaudeAPIForRouteV2(resp.reply).routeIDs = <<UnknownSpot, 6, 7>>
    /\ Len(resp.Stops) = 3
    /\ resp.Stops[2].ID = 1
    /\ resp.TotalDistanceKm = 19900
    /\ resp.TotalTimeMin = 68

\* The ids of the stops of the response that are spots, in route order.
RealIDs == SelectSeq([k \in 1..Len(resp.Stops) |-> resp.Stops[k].ID],
                     LAMBDA id : id > 0)

\* The arrangement of a list of ids in ascending order.
SortedByValue(ids) ==
    CHOOSE s \in [1..Len(ids) -> Range(ids)] :
        /\ \A i, j \in 1..Len(ids) : i < j => s[i] <= s[j]
        /\ \A v \in Range(ids) :
              Cardinality({i \in 1..Len(ids) : s[i] = v}) =
              Cardinality({i \in 1..Len(ids) : ids[i] = v})

\* C25: a route request that is answered writes one route_history row when
\* its route has more than the two endpoints, and none otherwise, so none
\* when the response has no stops; the row holds the user, the ascending
\* list of the real stop ids as a string, and the ids in route order; the
\* row is written also when the user's recent route hashes hold its key.
C25_RouteRowWritten ==
    RouteAnswered =>
        IF Len(resp.Stops) > 2
        THEN /\ Len(route_history) = resp.rowsBefore + 1
             /\ route_history[Len(route_history)] =
                   [user_id |-> resp.user,
                    route_hash |-> SprintfV(SortedByValue(RealIDs)),
                    spot_ids |-> RealIDs]
        ELSE Len(route_history) = resp.rowsBefore

\* The second request of a user gets the two spots of the first in the other
\* order: a second row with the same key and its own id sequence.
C25_Witness ==
    /\ RouteAnswered
    /\ resp.rowsBefore = 1
    /\ Len(route_history) = 2
    /\ route_history[2].route_hash \in resp.recentHashes
    /\ route_history[1].route_hash = route_history[2].route_hash
    /\ route_history[1].spot_ids # route_history[2].spot_ids
    /\ route_history[1].user_id = route_history[2].user_id

\* C26: a recommend response holds no spot twice and its request writes no
\* two recommendation_history rows for one spot, whatever the LLM reply
\* holds, a repeated id included.
C26_NoSpotTwice ==
    RecommendAnswered =>
        /\ \A i, j \in 1..Len(resp.spots) :
              i # j => resp.spots[i] # resp.spots[j]
        /\ \A i, j \in (resp.rowsBefore + 1)..Len(recommendation_history) :
              i # j => recommendation_history[i].spot_id #
                       recommendation_history[j].spot_id

\* C27: the arrival times of a route response do not decrease along the
\* stops, from the start over every stop to the end, whatever stay durations
\* the LLM reply holds.
C27_ArrivalsInOrder ==
    RouteAnswered =>
        \A k \in 1..(Len(resp.Stops) - 1) :
            MinutesOf(resp.Stops[k].ArrivalTime) <=
            MinutesOf(resp.Stops[k + 1].ArrivalTime)

\* C28: a route response stays within the budget of its request: the total
\* distance is at most the maximum round trip of available hours x 40 x 0.5
\* km, that is, of 1000/3 metres per available minute, and the estimated
\* return is no later than the departure plus the available time, whatever
\* sequence of spots in range the LLM chose.
C28_WithinBudget ==
    RouteAnswered /\ resp.Stops # <<>> =>
        /\ resp.TotalDistanceKm * 3 <= AvailableOf(resp.body) * 1000
        /\ MinutesOf(resp.EstimatedReturn) <=
              MinutesOf(resp.DepartureTime) + AvailableOf(resp.body)

\* The rows of a table that belong to a user.
OwnRows(table, u) == SelectSeq(table, LAMBDA row : row.user_id = u)

\* What a recommend request of user u with the given body and reply answers
\* from a store that holds the rows of u alone.
AnswerFromOwnRows(u, body, reply) ==
    LET visitedOwn == {row.spot_id : row \in Range(OwnRows(visit_history, u))}
        recentOwn == {row.spot_id :
                        row \in {r \in Range(OwnRows(recommendation_history, u)) :
                                   r.recommended_at > now - 7 * 24 * 60 * 60}}
        candidates == FilterCandidates(GetAllSpots, visitedOwn, WithDefaults(body))
    IN [candidates |-> candidates,
        spots |-> IDsOf(RecommendFrom(candidates, recentOwn, reply).result)]

\* C29: a feedback, recommend, accept, route or history request made under
\* one user id leaves the rows of every other user in visit_history,
\* recommendation_history and route_history as they are, and so their
\* visited set, recently recommended set and recent route hashes, and adds
\* no user but its own; the candidates and the spots of a recommend response
\* are those the request would get from a store holding its own user's rows
\* alone.
C29_UsersIsolated ==
    [][resp = Idle /\ resp' # Idle =>
          /\ users' \subseteq users \cup {resp'.user}
          /\ \A u \in (KnownUsers \cup KnownUsers') \ {resp'.user} :
                /\ OwnRows(visit_history', u) = OwnRows(visit_history, u)
                /\ OwnRows(recommendation_history', u) =
                      OwnRows(recommendation_history, u)
                /\ OwnRows(route_history', u) = OwnRows(route_history, u)
          /\ resp'.handler = "recommend" /\ resp'.status = "200" =>
                LET own == AnswerFromOwnRows(resp'.user, resp'.body, resp'.reply)
                IN /\ resp'.candidates = own.candidates
                   /\ resp'.spots = own.spots]_vars

\* A recommend response that holds a spot another user has visited, while
\* that user's row stays.
C29_Witness ==
    /\ RecommendAnswered
    /\ \E i \in 1..Len(visit_history) :
          /\ visit_history[i].user_id # resp.user
          /\ visit_history[i].spot_id \in Range(resp.spots)

\* C30: when requests of one user overlap, a recommend response holds no
\* spot that the user's visit_history holds at the moment the response's
\* rows are written, and on the fallback path (no valid id in the reply) no
\* spot that the user's recommendation_history of the last seven days holds
\* at that moment.
C30_SetsStillCurrent ==
    RecommendAnswered =>
        /\ \A i \in VisitRowsOf(resp.user) :
              visit_history[i].spot_id \notin Range(resp.spots)
        /\ resp.llmCalls = 1 /\ resp.valid = 0 =>
              Range(resp.spots) \cap RecentBefore = {}

====
